---------------------------- MODULE Spec2Model ----------------------------
(***************************************************************************)
(* A model of Cranium's Network component (src/src/network.h):             *)
(* construction, forward propagation, loss, prediction, accuracy,          *)
(* teardown and the text serialization.                                    *)
(*                                                                         *)
(* Matrices live in a heap addressed by identifiers, so that ownership,    *)
(* aliasing and destruction are visible.  Doubles are modelled by          *)
(* integers.  The matrix, activation and layer/connection helpers          *)
(* (matrix.h, function.h, layer.h) are not part of network.h; they are     *)
(* modelled from their documented contracts.                               *)
(***************************************************************************)
EXTENDS Integers, Sequences, FiniteSets, TLC

VARIABLES
    pc,         \* harness position: "start", "ready", "aborted", "ub", "destroyed"
    network,    \* the Network built by createNetwork, or NULL
    heap,       \* live matrix identifier -> matrix value (a destroyed one is absent)
    nextId,     \* next fresh matrix identifier
    randState,  \* state of the generator initializeConnection draws from
    file,       \* the lines of the file at `path`; empty when none was written
    loaded,     \* the Network returned by readNetwork, or NULL
    readLog,    \* per fgets of the last readNetwork: <<line index, role read as>>
    result,     \* what the last operation returned or observed
    ghost       \* bookkeeping of destructions and of accesses to destroyed objects

vars == <<pc, network, heap, nextId, randState, file, loaded, readLog, result, ghost>>

---------------------------------------------------------------------------
(* Bounds of the model *)

MaxSize == 2        \* sizes (features, hidden units, classes) range over 0..MaxSize
MaxHidden == 1      \* numHiddenLayers ranges over -1..MaxHidden
MaxRows == 2        \* batches have 1..MaxRows rows
MaxPasses == 2      \* forward passes (direct or through accuracy) per run
MaxSeed == 1        \* initial generator states 0..MaxSeed-1
MaxStrength == 2    \* regularization strengths 0..MaxStrength

NULL == [null |-> TRUE]

---------------------------------------------------------------------------
(* Matrices: rows, cols, data[i][j] with C's 0-based indices *)

Grid(r, c) == (0..(r - 1)) \X (0..(c - 1))

\* the r x c matrix whose entry (i, j) is f[<<i, j>>]
Matrix(r, c, f) ==
    [rows |-> r, cols |-> c,
     data |-> [i \in 0..(r - 1) |-> [j \in 0..(c - 1) |-> f[<<i, j>>]]]]

\* the zero-filled r x c matrix
ZeroMatrix(r, c) == Matrix(r, c, [x \in Grid(r, c) |-> 0])

RECURSIVE SumTo(_, _)
SumTo(n, f) == IF n < 0 THEN 0 ELSE f[n] + SumTo(n - 1, f)

\* multiply(A, B): the standard product, A.cols == B.rows
multiply(A, B) ==
    LET cell(i, j) == SumTo(A.cols - 1, [k \in 0..(A.cols - 1) |-> A.data[i][k] * B.data[k][j]])
    IN  Matrix(A.rows, B.cols, [x \in Grid(A.rows, B.cols) |-> cell(x[1], x[2])])

\* addToEachRow(M, biasRow): adds the 1 x cols row to every row of M
addToEachRow(M, biasRow) ==
    LET cell(i, j) == M.data[i][j] + biasRow.data[0][j]
    IN  Matrix(M.rows, M.cols, [x \in Grid(M.rows, M.cols) |-> cell(x[1], x[2])])

\* copy(M): a deep clone
copy(M) == [rows |-> M.rows, cols |-> M.cols, data |-> M.data]

---------------------------------------------------------------------------
(* Activations: the catalog named in network.h.  Values are integers, so   *)
(* the smooth functions are quantised; each keeps the shape of its input.  *)

Activations == {"sigmoid", "relu", "tanH", "softmax"}

RowMax(row, c) ==
    CHOOSE m \in {row[j] : j \in 0..(c - 1)} : \A j \in 0..(c - 1) : row[j] <= m

activate(act, M) ==
    LET cell(i, j) ==
            LET x == M.data[i][j]
            IN  CASE act = "sigmoid" -> (IF x < 0 THEN 0 ELSE 1)
                  [] act = "relu"    -> (IF x < 0 THEN 0 ELSE x)
                  [] act = "tanH"    -> (IF x < 0 THEN -1 ELSE IF x = 0 THEN 0 ELSE 1)
                  [] act = "softmax" -> (IF x = RowMax(M.data[i], M.cols) THEN 2
                                         ELSE IF x + 1 = RowMax(M.data[i], M.cols) THEN 1
                                         ELSE 0)
                  [] OTHER           -> x
    IN  Matrix(M.rows, M.cols, [x \in Grid(M.rows, M.cols) |-> cell(x[1], x[2])])

---------------------------------------------------------------------------
(* Layers and connections (layer.h) *)

\* createLayer(type, size, activation): a layer holding a fresh 1 x size
\* zero matrix; a non-positive size is a fatal precondition failure.
createLayer(type, size, activation, id) ==
    [type |-> type, size |-> size, activation |-> activation, input |-> id]

createLayerAborts(size) == size <= 0

\* the generator behind initializeConnection
NextRand(s) == (3 * s + 1) % 7

RandValue(s) == (s % 3) - 1

RECURSIVE RandAfter(_, _)
RandAfter(s, n) == IF n = 0 THEN s ELSE RandAfter(NextRand(s), n - 1)

\* createConnection(from, to) followed by initializeConnection: weights
\* [from.size x to.size] and bias [1 x to.size] filled from the generator
createConnection(layers, from, to, s) ==
    LET r == layers[from].size
        c == layers[to].size
        w(i, j) == RandValue(RandAfter(s, i * c + j))
        b(i, j) == RandValue(RandAfter(s, r * c + j))
    IN  [from |-> from, to |-> to,
         weights |-> Matrix(r, c, [x \in Grid(r, c) |-> w(x[1], x[2])]),
         bias |-> Matrix(1, c, [x \in Grid(1, c) |-> b(x[1], x[2])])]

ConnectionDraws(layers, from, to) ==
    layers[from].size * layers[to].size + layers[to].size

---------------------------------------------------------------------------
(* Network *)

Alloc(h, id, M) == h @@ (id :> M)

Release(h, id) == [k \in (DOMAIN h) \ {id} |-> h[k]]

\* the branches of createNetwork's layer loop (lines 61-74)
layerType(i, numLayers) ==
    IF i = 0 THEN "INPUT"
    ELSE IF i = numLayers - 1 THEN "OUTPUT"
    ELSE "HIDDEN"

\* mutant: the OUTPUT layer sized by numFeatures
layerSizeOutputFromFeatures(i, numLayers, numFeatures, hiddenSizes, numClasses) ==
    IF i = 0 THEN numFeatures
    ELSE IF i = numLayers - 1 THEN numFeatures
    ELSE hiddenSizes[i - 1]

layerSize(i, numLayers, numFeatures, hiddenSizes, numClasses) ==
    IF i = 0 THEN numFeatures
    ELSE IF i = numLayers - 1 THEN numClasses
    ELSE hiddenSizes[i - 1]

layerActivation(i, numLayers, hiddenActivations, outputActivation) ==
    IF i = 0 THEN "none"
    ELSE IF i = numLayers - 1 THEN outputActivation
    ELSE hiddenActivations[i - 1]

RECURSIVE buildConnections(_, _, _, _)
buildConnections(layers, n, s, acc) ==
    LET i == Len(acc)
    IN  IF i >= n THEN [connections |-> acc, randState |-> s]
        ELSE buildConnections(layers, n,
                 RandAfter(s, ConnectionDraws(layers, i, i + 1)),
                 Append(acc, createConnection(layers, i, i + 1, s)))

\* createNetwork: the assertion, the layer loop, the connection loop.
\* `built` counts the layers completed when the call stopped.
createNetwork(numFeatures, numHiddenLayers, hiddenSizes, hiddenActivations, numClasses, outputActivation, h, id, s) ==
    LET numLayers == 2 + numHiddenLayers
        typeOf(i) == layerType(i, numLayers)
        sizeOf(i) == layerSize(i, numLayers, numFeatures, hiddenSizes, numClasses)
        actOf(i)  == layerActivation(i, numLayers, hiddenActivations, outputActivation)
        bad == {i \in 0..(numLayers - 1) : createLayerAborts(sizeOf(i))}
        firstBad == CHOOSE i \in bad : \A k \in bad : i <= k
        layers == [i \in 0..(numLayers - 1) |->
                      createLayer(typeOf(i), sizeOf(i), actOf(i), id + i)]
        inputs == [k \in id..(id + numLayers - 1) |-> ZeroMatrix(1, sizeOf(k - id))]
        numConnections == numLayers - 1
        cons == buildConnections(layers, numConnections, s, <<>>)
        stopped(n) == [status |-> "abort", built |-> n, network |-> NULL,
                       heap |-> h, nextId |-> id, randState |-> s]
    IN  IF ~(numFeatures > 0 /\ numHiddenLayers >= 0 /\ numClasses > 0) THEN stopped(0)
        ELSE IF bad # {} THEN stopped(firstBad)
        ELSE [status |-> "ok", built |-> numLayers,
              network |-> [numLayers |-> numLayers, layers |-> layers,
                           numConnections |-> numConnections,
                           connections |-> [i \in 0..(numConnections - 1) |->
                                               cons.connections[i + 1]]],
              heap |-> h @@ inputs, nextId |-> id + numLayers,
              randState |-> cons.randState]

\* One iteration of forwardPass's loop (lines 95-100) for connection i.
forwardStep(st, i) ==
    LET net == st.network
        con == net.connections[i]
        src == net.layers[i].input
        srcLive == src \in DOMAIN st.heap
        tmp == multiply(IF srcLive THEN st.heap[src] ELSE st.stale, con.weights)
        tmp2 == addToEachRow(tmp, con.bias)
        tmpId == st.nextId
        tmp2Id == st.nextId + 1
        old == net.layers[con.to].input
        oldLive == old \in DOMAIN st.heap
        h1 == Alloc(Alloc(st.heap, tmpId, tmp), tmp2Id, tmp2)
        h2 == Release(h1, old)
        h3 == Release(h2, tmpId)
        h4 == [h3 EXCEPT ![tmp2Id] = activate(net.layers[con.to].activation, @)]
    IN  [st EXCEPT
            !.network.layers[con.to].input = tmp2Id,
            !.heap = h4,
            !.nextId = st.nextId + 2,
            !.ghost.uaf = @ \/ ~srcLive,
            !.ghost.doubleFree = @ \/ ~oldLive,
            !.ghost.callerFreed = @ \/ (old = st.input)]

\* mutant: the loop stops one connection short
RECURSIVE forwardLoopShort(_, _)
forwardLoopShort(st, i) ==
    IF i >= st.network.numConnections - 1 THEN st
    ELSE forwardLoopShort(forwardStep(st, i), i + 1)

RECURSIVE forwardLoop(_, _)
forwardLoop(st, i) ==
    IF i >= st.network.numConnections THEN st
    ELSE forwardLoop(forwardStep(st, i), i + 1)

\* forwardPass(network, input): `input` is the identifier of the caller's
\* matrix.  `intact` chooses what a read of destroyed memory yields: the old
\* contents (TRUE) or a crash (FALSE).
forwardPass(net, input, h, id, g, intact) ==
    LET first == net.layers[0].input
        before == h[input]
        stop(s) == [status |-> s, network |-> net, heap |-> h, nextId |-> id,
                    ghost |-> g, input |-> input, stale |-> before]
        h1 == Release(h, first)
        inputLive == input \in DOMAIN h1
        h2 == Alloc(h1, id, copy(before))
        st == [status |-> "ok",
               network |-> [net EXCEPT !.layers[0].input = id],
               heap |-> h2, nextId |-> id + 1,
               ghost |-> [g EXCEPT !.uaf = @ \/ ~inputLive,
                                   !.callerFreed = @ \/ ~inputLive],
               input |-> input, stale |-> before]
    IN  IF before.cols # h[first].cols THEN stop("abort")
        ELSE IF ~inputLive /\ ~intact THEN
            [stop("crash") EXCEPT !.heap = h1, !.ghost.uaf = TRUE,
                                  !.ghost.callerFreed = TRUE]
        ELSE forwardLoop(st, 0)

\* ln over the integer stand-ins for doubles, in hundredths:
\* MAX(DBL_MIN, x) floors a non-positive x at DBL_MIN, ln(DBL_MIN) = -708.40
RECURSIVE LnHundredths(_)
LnHundredths(x) ==
    IF x <= 0 THEN -70840
    ELSE IF x = 1 THEN 0
    ELSE 69 + LnHundredths(x \div 2)

\* mutant: the bias entries are summed as well
RECURSIVE regErrWithBias(_, _)
regErrWithBias(net, k) ==
    IF k >= net.numConnections THEN 0
    ELSE LET weights == net.connections[k].weights
             bias == net.connections[k].bias
             rowSum(j) == SumTo(weights.cols - 1,
                              [c \in 0..(weights.cols - 1) |->
                                   weights.data[j][c] * weights.data[j][c]])
         IN  SumTo(weights.rows - 1, [j \in 0..(weights.rows - 1) |-> rowSum(j)])
             + SumTo(bias.cols - 1,
                     [c \in 0..(bias.cols - 1) |-> bias.data[0][c] * bias.data[0][c]])
             + regErrWithBias(net, k + 1)

RECURSIVE regErr(_, _)
regErr(net, k) ==
    IF k >= net.numConnections THEN 0
    ELSE LET weights == net.connections[k].weights
             rowSum(j) == SumTo(weights.cols - 1,
                              [c \in 0..(weights.cols - 1) |->
                                   weights.data[j][c] * weights.data[j][c]])
         IN  SumTo(weights.rows - 1, [j \in 0..(weights.rows - 1) |-> rowSum(j)])
             + regErr(net, k + 1)

\* crossEntropyLoss(network, prediction, actual, regularizationStrength).
\* The returned double (-1/rows) * total_err + strength * .5 * reg_err is
\* kept exact as the fraction num / den with den = 2 * rows.
crossEntropyLoss(net, prediction, actual, regularizationStrength) ==
    LET curErr(i) == SumTo(prediction.cols - 1,
                         [j \in 0..(prediction.cols - 1) |->
                              actual.data[i][j] * LnHundredths(prediction.data[i][j])])
        total_err == SumTo(prediction.rows - 1,
                         [i \in 0..(prediction.rows - 1) |-> curErr(i)])
        \* in hundredths, like total_err
        reg_err == IF net # NULL THEN 100 * regErr(net, 0) ELSE 0
    IN  IF prediction.rows # actual.rows \/ prediction.cols # actual.cols
        THEN [status |-> "abort", num |-> 0, den |-> 1]
        ELSE [status |-> "ok",
              num |-> (-2) * total_err + actual.rows * regularizationStrength * reg_err,
              den |-> 2 * actual.rows]

\* the inner loop of predict (lines 136-141): scan j = 1..size-1 with a strict >
\* mutant: >= in place of >, so the last maximum wins
RECURSIVE argmaxScanLast(_, _, _, _)
argmaxScanLast(row, j, size, max) ==
    IF j >= size THEN max
    ELSE argmaxScanLast(row, j + 1, size, IF row[j] >= row[max] THEN j ELSE max)

RECURSIVE argmaxScan(_, _, _, _)
argmaxScan(row, j, size, max) ==
    IF j >= size THEN max
    ELSE argmaxScan(row, j + 1, size, IF row[j] > row[max] THEN j ELSE max)

\* predict(network): one index per row of the OUTPUT layer's stored input
predict(net, h) ==
    LET outputLayer == net.layers[net.numLayers - 1]
        in == h[outputLayer.input]
    IN  [i \in 0..(in.rows - 1) |-> argmaxScan(in.data[i], 1, outputLayer.size, 0)]

\* accuracy(network, data, classes).  `oob` chooses what a read past the end
\* of a classes row compares as (equal to 1 or not).
accuracy(net, data, classes, h, id, g, intact, oob) ==
    LET d == h[data]
        c == h[classes]
        fp == forwardPass(net, data, h, id, g, intact)
        predictions == predict(fp.network, fp.heap)
        hit(i) == IF predictions[i] < c.cols THEN c.data[i][predictions[i]] = 1 ELSE oob
        past == \E i \in 0..(d.rows - 1) : predictions[i] >= c.cols
        numCorrect == Cardinality({i \in 0..(d.rows - 1) : hit(i)})
        stop(s) == [status |-> s, numCorrect |-> 0, total |-> c.rows, past |-> FALSE,
                    network |-> net, heap |-> h, nextId |-> id, ghost |-> g]
    IN  IF d.rows # c.rows THEN stop("abort")
        ELSE IF d.cols # net.layers[net.numLayers - 1].size THEN stop("abort")
        ELSE IF fp.status # "ok" THEN
            [stop(fp.status) EXCEPT !.heap = fp.heap, !.ghost = fp.ghost]
        ELSE [status |-> "ok", numCorrect |-> numCorrect, total |-> c.rows,
              past |-> past,
              network |-> fp.network, heap |-> fp.heap, nextId |-> fp.nextId,
              ghost |-> fp.ghost]

\* whether the object was destroyed earlier, by the log of destructions
Destroyed(g, obj) == \E n \in 1..Len(g.destroyed) : g.destroyed[n] = obj

\* the layer loop of destroyNetwork (lines 165-167): destroyLayer releases the
\* layer's input matrix and the layer
RECURSIVE destroyLayers(_, _, _)
destroyLayers(st, i, n) ==
    IF i >= n THEN st
    ELSE LET in == st.network.layers[i].input
             gone == Destroyed(st.ghost, <<"layer", i>>)
         IN  destroyLayers(
                 [st EXCEPT !.heap = Release(@, in),
                            !.ghost.destroyed = Append(@, <<"layer", i>>),
                            !.ghost.uaf = @ \/ gone,
                            !.ghost.doubleFree = @ \/ in \notin DOMAIN st.heap],
                 i + 1, n)

\* the connection loop (lines 168-170): destroyConnection releases weights,
\* bias and the connection; it does not follow `from` or `to`
RECURSIVE destroyConnections(_, _, _)
destroyConnections(st, i, n) ==
    IF i >= n THEN st
    ELSE LET gone == Destroyed(st.ghost, <<"connection", i>>)
         IN  destroyConnections(
                 [st EXCEPT !.ghost.destroyed = Append(@, <<"connection", i>>),
                            !.ghost.uaf = @ \/ gone],
                 i + 1, n)

\* mutant: the layer loop bounded by numConnections
destroyNetworkShort(net, h, g) ==
    LET st == [network |-> net, heap |-> h, ghost |-> g]
    IN  destroyConnections(destroyLayers(st, 0, net.numConnections), 0, net.numConnections)

destroyNetwork(net, h, g) ==
    LET st == [network |-> net, heap |-> h, ghost |-> g]
    IN  destroyConnections(destroyLayers(st, 0, net.numLayers), 0, net.numConnections)

---------------------------------------------------------------------------
(* Serialization.  A line is the text fprintf produced, kept as a tagged   *)
(* token, together with the role saveNetwork wrote it for.                 *)

Line(role, text) == [role |-> role, text |-> text]

\* fprintf "%d\n", "<name>\n", "%la\n"
PrintInt(n) == [kind |-> "decimal", int |-> n, str |-> ""]
PrintName(name) == [kind |-> "word", int |-> 0, str |-> name]
PrintHex(v) == [kind |-> "hexfloat", int |-> v, str |-> ""]

\* sscanf "%d": a decimal converts; of a hexadecimal float only the leading
\* "0" (or "-0") converts; a word does not convert
ScanInt(text) ==
    CASE text.kind = "decimal"  -> [ok |-> TRUE, int |-> text.int]
      [] text.kind = "hexfloat" -> [ok |-> TRUE, int |-> 0]
      [] OTHER                  -> [ok |-> FALSE, int |-> 0]

\* sscanf "%la": hexadecimal floats and decimals convert, words do not
ScanDouble(text) ==
    CASE text.kind = "hexfloat" -> [ok |-> TRUE, int |-> text.int]
      [] text.kind = "decimal"  -> [ok |-> TRUE, int |-> text.int]
      [] OTHER                  -> [ok |-> FALSE, int |-> 0]

\* sscanf "%s" followed by the strcmp chain of lines 253-264
ScanActivation(text) ==
    IF text.kind # "word" THEN "softmax"
    ELSE IF text.str = "sigmoid" THEN "sigmoid"
    ELSE IF text.str = "relu" THEN "relu"
    ELSE IF text.str = "tanH" THEN "tanH"
    ELSE "softmax"

RECURSIVE Flatten(_)
Flatten(seqs) == IF seqs = <<>> THEN <<>> ELSE Head(seqs) \o Flatten(Tail(seqs))

\* saveNetwork(network, path): the lines written, in order
saveNetwork(net) ==
    LET hiddenName(i) ==
            IF net.layers[1 + i].activation = "sigmoid" THEN "sigmoid"
            ELSE IF net.layers[1 + i].activation = "relu" THEN "relu"
            ELSE "tanH"
        weightLines(k) ==
            LET w == net.connections[k].weights
            IN  [n \in 1..(w.rows * w.cols) |->
                    Line("weight", PrintHex(w.data[(n - 1) \div w.cols][(n - 1) % w.cols]))]
        biasLines(k) ==
            LET b == net.connections[k].bias
            IN  [n \in 1..b.cols |-> Line("bias", PrintHex(b.data[0][n - 1]))]
    IN  <<Line("numLayers", PrintInt(net.numLayers))>>
        \o [n \in 1..net.numLayers |-> Line("size", PrintInt(net.layers[n - 1].size))]
        \o [n \in 1..(net.numLayers - 2) |-> Line("activation", PrintName(hiddenName(n - 1)))]
        \o (IF net.layers[net.numLayers - 1].activation = "softmax"
            THEN <<Line("activation", PrintName("softmax"))>> ELSE <<>>)
        \o Flatten([k \in 1..net.numConnections |-> weightLines(k - 1)])
        \o Flatten([k \in 1..net.numConnections |-> biasLines(k - 1)])

RECURSIVE CellsBefore(_, _, _)
CellsBefore(net, k, bias) ==
    IF k <= 0 THEN 0
    ELSE (IF bias THEN net.connections[k - 1].bias.cols
          ELSE net.connections[k - 1].weights.rows * net.connections[k - 1].weights.cols)
         + CellsBefore(net, k - 1, bias)

\* readNetwork(path) on the lines f.  fgets past the end of the file leaves
\* the zeroed buffer, on which sscanf converts nothing and the target keeps
\* its value.  The log names, per fgets, the line consumed (0 past the end)
\* and the role it was read for.
readNetwork(f, h, id, s) ==
    LET has(p) == p <= Len(f)
        numLayers == ScanInt(f[1].text).int
        layerSizes == [i \in 0..(numLayers - 1) |-> ScanInt(f[2 + i].text).int]
        funcs == [i \in 0..(numLayers - 2) |-> ScanActivation(f[2 + numLayers + i].text)]
        inputSize == layerSizes[0]
        outputSize == layerSizes[numLayers - 1]
        numHiddenLayers == numLayers - 2
        outputFunc == funcs[numLayers - 2]
        hiddenSizes == [i \in 0..(numLayers - 3) |-> layerSizes[1 + i]]
        hiddenFuncs == [i \in 0..(numLayers - 3) |-> funcs[i]]
        made == createNetwork(inputSize, numHiddenLayers, hiddenSizes, hiddenFuncs,
                              outputSize, outputFunc, h, id, s)
        net == made.network
        firstWeight == 2 + numLayers + (numLayers - 1)
        numWeights == CellsBefore(net, net.numConnections, FALSE)
        numBias == CellsBefore(net, net.numConnections, TRUE)
        firstBias == firstWeight + numWeights
        scanned(p, old) ==
            IF has(p) /\ ScanDouble(f[p].text).ok THEN ScanDouble(f[p].text).int ELSE old
        filled(k) ==
            LET con == net.connections[k]
                w(i, j) == scanned(firstWeight + CellsBefore(net, k, FALSE)
                                   + i * con.weights.cols + j, con.weights.data[i][j])
                b(i, j) == scanned(firstBias + CellsBefore(net, k, TRUE) + j,
                                   con.bias.data[0][j])
                r == con.weights.rows
                c == con.weights.cols
            IN  [con EXCEPT
                    !.weights = Matrix(r, c, [x \in Grid(r, c) |-> w(x[1], x[2])]),
                    !.bias = Matrix(1, c, [x \in Grid(1, c) |-> b(x[1], x[2])])]
        entry(p, role) == <<IF has(p) THEN p ELSE 0, role>>
        log == <<entry(1, "numLayers")>>
               \o [n \in 1..numLayers |-> entry(1 + n, "size")]
               \o [n \in 1..(numLayers - 1) |-> entry(1 + numLayers + n, "activation")]
               \o [n \in 1..numWeights |-> entry(firstWeight + n - 1, "weight")]
               \o [n \in 1..numBias |-> entry(firstBias + n - 1, "bias")]
    IN  IF made.status # "ok" THEN [made EXCEPT !.network = NULL] @@ [log |-> <<>>]
        ELSE [made EXCEPT
                 !.network.connections = [k \in 0..(net.numConnections - 1) |-> filled(k)]]
             @@ [log |-> log]

\* an abort ends the process: none of its memory survives
Memory(status, h) == IF status = "abort" THEN <<>> ELSE h

\* the position of the harness after a call that ended with status s
After(s, g) ==
    IF s = "abort" THEN "aborted"
    ELSE IF s = "crash" \/ g.uaf \/ g.doubleFree THEN "ub"
    ELSE "ready"

---------------------------------------------------------------------------
(* The caller's matrices: batches of every shape, two value patterns each *)

PoolShapes == {<<r, c, p>> : r \in 1..MaxRows, c \in 1..MaxSize, p \in 0..1}

PoolIndex(r, c, p) == ((r - 1) * MaxSize + (c - 1)) * 2 + p + 1

PoolSize == MaxRows * MaxSize * 2

PoolMatrix(r, c, p) ==
    LET cell(i, j) == IF p = 0 THEN (IF j = i % c THEN 1 ELSE 0) ELSE (i + j) % 2
    IN  Matrix(r, c, [x \in Grid(r, c) |-> cell(x[1], x[2])])

PoolHeap ==
    [k \in 1..PoolSize |->
        LET t == CHOOSE t \in PoolShapes : PoolIndex(t[1], t[2], t[3]) = k
        IN  PoolMatrix(t[1], t[2], t[3])]

\* the one-hot matrices of the pool (pattern 0)
OneHotPool == {PoolIndex(t[1], t[2], 0) : t \in PoolShapes}

NoGhost == [uaf |-> FALSE, doubleFree |-> FALSE, callerFreed |-> FALSE,
            destroyed |-> <<>>]

NoResult == [op |-> "none", passes |-> 0]

Init ==
    /\ pc = "start"
    /\ network = NULL
    /\ heap = PoolHeap
    /\ nextId = PoolSize + 1
    /\ randState \in 0..(MaxSeed - 1)
    /\ file = <<>>
    /\ loaded = NULL
    /\ readLog = <<>>
    /\ result = NoResult
    /\ ghost = NoGhost

CreateNetwork ==
    /\ pc = "start"
    /\ \E numFeatures \in 0..MaxSize, numHiddenLayers \in (-1)..MaxHidden,
          numClasses \in 0..MaxSize, outputActivation \in Activations :
       \E hiddenSizes \in [0..(numHiddenLayers - 1) -> 0..MaxSize],
          hiddenActivations \in [0..(numHiddenLayers - 1) -> Activations] :
          LET r == createNetwork(numFeatures, numHiddenLayers, hiddenSizes,
                                 hiddenActivations, numClasses, outputActivation,
                                 heap, nextId, randState)
          IN  /\ pc' = After(r.status, ghost)
              /\ network' = r.network
              /\ heap' = Memory(r.status, r.heap)
              /\ nextId' = r.nextId
              /\ randState' = r.randState
              /\ result' = [op |-> "createNetwork", status |-> r.status, passes |-> 0,
                            built |-> r.built,
                            numFeatures |-> numFeatures,
                            numHiddenLayers |-> numHiddenLayers,
                            hiddenSizes |-> hiddenSizes,
                            hiddenActivations |-> hiddenActivations,
                            numClasses |-> numClasses,
                            outputActivation |-> outputActivation]
    /\ UNCHANGED <<file, loaded, readLog, ghost>>

LayerInputs(net) == {net.layers[i].input : i \in 0..(net.numLayers - 1)}

ForwardPass ==
    /\ pc = "ready"
    /\ result.passes < MaxPasses
    /\ \E input \in (1..PoolSize) \cup LayerInputs(network) :
       \E intact \in IF input = network.layers[0].input THEN BOOLEAN ELSE {TRUE} :
          LET r == forwardPass(network, input, heap, nextId, ghost, intact)
          IN  /\ pc' = After(r.status, r.ghost)
              /\ network' = IF r.status = "abort" THEN NULL ELSE r.network
              /\ heap' = Memory(r.status, r.heap)
              /\ nextId' = r.nextId
              /\ ghost' = r.ghost
              /\ result' = [op |-> "forwardPass", status |-> r.status,
                            input |-> input, rows |-> heap[input].rows,
                            cols |-> heap[input].cols,
                            prevRows |-> heap[network.layers[0].input].rows,
                            passes |-> result.passes + 1]
    /\ UNCHANGED <<randState, file, loaded, readLog>>

Predict ==
    /\ pc = "ready"
    /\ result' = [op |-> "predict", status |-> "ok", passes |-> result.passes,
                  predictions |-> predict(network, heap)]
    /\ UNCHANGED <<pc, network, heap, nextId, randState, file, loaded, readLog, ghost>>

Accuracy ==
    /\ pc = "ready"
    /\ result.passes < MaxPasses
    /\ \E data \in 1..PoolSize, classes \in OneHotPool :
       \E oob \in IF heap[classes].cols < network.layers[network.numLayers - 1].size
                  THEN BOOLEAN ELSE {TRUE} :
          LET r == accuracy(network, data, classes, heap, nextId, ghost, TRUE, oob)
          IN  /\ pc' = IF r.status = "ok" /\ r.past THEN "ub" ELSE After(r.status, r.ghost)
              /\ network' = IF r.status = "abort" THEN NULL ELSE r.network
              /\ heap' = Memory(r.status, r.heap)
              /\ nextId' = r.nextId
              /\ ghost' = r.ghost
              /\ result' = [op |-> "accuracy", status |-> r.status,
                            passes |-> result.passes + 1,
                            dataRows |-> heap[data].rows, dataCols |-> heap[data].cols,
                            classesRows |-> heap[classes].rows,
                            classesCols |-> heap[classes].cols,
                            outputSize |-> network.layers[network.numLayers - 1].size,
                            past |-> r.past,
                            numCorrect |-> r.numCorrect, total |-> r.total]
    /\ UNCHANGED <<randState, file, loaded, readLog>>

CrossEntropyLoss ==
    /\ pc = "ready"
    /\ \E withNetwork \in BOOLEAN, prediction \in 1..PoolSize, actual \in OneHotPool,
          regularizationStrength \in 0..MaxStrength :
          LET r == crossEntropyLoss(IF withNetwork THEN network ELSE NULL,
                                    heap[prediction], heap[actual],
                                    regularizationStrength)
          IN  /\ pc' = After(r.status, ghost)
              /\ network' = IF r.status = "abort" THEN NULL ELSE network
              /\ heap' = Memory(r.status, heap)
              /\ result' = [op |-> "crossEntropyLoss", status |-> r.status,
                            passes |-> result.passes,
                            withNetwork |-> withNetwork, prediction |-> prediction,
                            actual |-> actual,
                            regularizationStrength |-> regularizationStrength,
                            num |-> r.num, den |-> r.den]
    /\ UNCHANGED <<nextId, randState, file, loaded, readLog, ghost>>

DestroyNetwork ==
    /\ pc = "ready"
    /\ LET r == destroyNetwork(network, heap, ghost)
       IN  /\ pc' = "destroyed"
           /\ heap' = r.heap
           /\ ghost' = r.ghost
           /\ result' = [op |-> "destroyNetwork", status |-> "ok",
                         passes |-> result.passes, after |-> result.op]
    /\ UNCHANGED <<network, nextId, randState, file, loaded, readLog>>

SaveNetwork ==
    /\ pc = "ready"
    /\ file' = saveNetwork(network)
    /\ result' = [op |-> "saveNetwork", status |-> "ok", passes |-> result.passes]
    /\ UNCHANGED <<pc, network, heap, nextId, randState, loaded, readLog, ghost>>

ReadNetwork ==
    /\ pc = "ready"
    /\ file # <<>>
    /\ loaded = NULL
    /\ LET r == readNetwork(file, heap, nextId, randState)
       IN  /\ pc' = After(r.status, ghost)
           /\ network' = IF r.status = "abort" THEN NULL ELSE network
           /\ loaded' = r.network
           /\ heap' = Memory(r.status, r.heap)
           /\ nextId' = r.nextId
           /\ randState' = r.randState
           /\ readLog' = r.log
           /\ result' = [op |-> "readNetwork", status |-> r.status,
                         passes |-> result.passes]
    /\ UNCHANGED <<file, ghost>>

\* the life of one Network: construction, use, teardown
Next ==
    \/ CreateNetwork
    \/ ForwardPass
    \/ Predict
    \/ Accuracy
    \/ SaveNetwork
    \/ DestroyNetwork

\* construction and loss evaluation
NextLoss ==
    \/ CreateNetwork
    \/ CrossEntropyLoss

SpecLoss == Init /\ [][NextLoss]_vars

\* construction, save and reload
NextFile ==
    \/ CreateNetwork
    \/ SaveNetwork
    \/ ReadNetwork

SpecFile == Init /\ [][NextFile]_vars

Spec == Init /\ [][Next]_vars

---------------------------------------------------------------------------
(* Properties of construction *)

ValidParams(r) ==
    /\ r.numFeatures > 0
    /\ r.numHiddenLayers >= 0
    /\ r.numClasses > 0
    /\ \A i \in DOMAIN r.hiddenSizes : r.hiddenSizes[i] > 0

WellShaped(M, r, c) ==
    /\ M.rows = r
    /\ M.cols = c
    /\ DOMAIN M.data = 0..(r - 1)
    /\ \A i \in 0..(r - 1) : DOMAIN M.data[i] = 0..(c - 1)

\* C2: for valid parameters createNetwork returns a Network with
\* numLayers = numHiddenLayers + 2 and numConnections = numLayers - 1; layer 0
\* is INPUT of size numFeatures, the last is OUTPUT of size numClasses, layer i
\* between them is HIDDEN with hiddenSizes[i-1] and hiddenActivations[i-1]; and
\* connection i links layers[i] to layers[i+1] with weights of shape
\* [layers[i].size x layers[i+1].size].
C2_CreateNetworkStructure ==
    (result.op = "createNetwork" /\ ValidParams(result)) =>
        /\ result.status = "ok"
        /\ network.numLayers = result.numHiddenLayers + 2
        /\ network.numConnections = network.numLayers - 1
        /\ DOMAIN network.layers = 0..(network.numLayers - 1)
        /\ DOMAIN network.connections = 0..(network.numConnections - 1)
        /\ network.layers[0].type = "INPUT"
        /\ network.layers[0].size = result.numFeatures
        /\ network.layers[network.numLayers - 1].type = "OUTPUT"
        /\ network.layers[network.numLayers - 1].size = result.numClasses
        /\ network.layers[network.numLayers - 1].activation = result.outputActivation
        /\ \A i \in 1..(network.numLayers - 2) :
              /\ network.layers[i].type = "HIDDEN"
              /\ network.layers[i].size = result.hiddenSizes[i - 1]
              /\ network.layers[i].activation = result.hiddenActivations[i - 1]
        /\ \A i \in 0..(network.numConnections - 1) :
              /\ network.connections[i].from = i
              /\ network.connections[i].to = i + 1
              /\ WellShaped(network.connections[i].weights,
                            network.layers[i].size, network.layers[i + 1].size)

C2_Witness ==
    /\ result.op = "createNetwork"
    /\ result.status = "ok"
    /\ result.numHiddenLayers = 1
    /\ result.hiddenSizes[0] # result.numFeatures
    /\ result.numFeatures # result.numClasses

\* C6: whenever a size precondition is violated (numFeatures <= 0,
\* numClasses <= 0, numHiddenLayers < 0 or some hiddenSizes[i] <= 0)
\* createNetwork aborts before building any layer or connection.
C6_AbortBeforeBuilding ==
    (result.op = "createNetwork" /\ ~ValidParams(result)) =>
        (result.status = "abort" /\ result.built = 0)

---------------------------------------------------------------------------
(* Properties of forward propagation, prediction and accuracy *)

\* C3: after a forward pass every layer's stored input has the rows of the
\* batch and as many columns as the layer has units, whatever the row count
\* of the pass before.
C3_ForwardShapes ==
    (result.op = "forwardPass" /\ result.status = "ok") =>
        \A i \in 0..(network.numLayers - 1) :
            /\ network.layers[i].input \in DOMAIN heap
            /\ WellShaped(heap[network.layers[i].input], result.rows,
                          network.layers[i].size)

C3_Witness ==
    /\ result.op = "forwardPass"
    /\ result.status = "ok"
    /\ pc = "ready"
    /\ result.passes = 2
    /\ result.rows = 2
    /\ result.prevRows = 1
    /\ network.numLayers = 3
    /\ heap[network.layers[2].input].cols = 2
    /\ heap[network.layers[1].input].cols = 1

\* C4: predict returns one index per row of the OUTPUT layer's stored input,
\* each in [0, outputSize), and each the lowest column holding the row's
\* maximum.
C4_PredictArgmax ==
    result.op = "predict" =>
        LET outputLayer == network.layers[network.numLayers - 1]
            out == heap[outputLayer.input]
            p == result.predictions
        IN  /\ DOMAIN p = 0..(out.rows - 1)
            /\ \A i \in 0..(out.rows - 1) :
                  /\ p[i] \in 0..(outputLayer.size - 1)
                  /\ \A j \in 0..(outputLayer.size - 1) : out.data[i][j] <= out.data[i][p[i]]
                  /\ \A j \in 0..(p[i] - 1) : out.data[i][j] < out.data[i][p[i]]

C4_Witness ==
    /\ result.op = "predict"
    /\ LET outputLayer == network.layers[network.numLayers - 1]
           out == heap[outputLayer.input]
       IN  /\ out.rows = 2
           /\ outputLayer.size = 2
           /\ \E i, k \in 0..1 :
                 /\ result.predictions[i] = 1
                 /\ result.predictions[k] = 0
                 /\ out.data[k][0] = out.data[k][1]

\* C5: when data.rows = classes.rows and data.cols is the OUTPUT layer's size,
\* accuracy runs its forward pass without a precondition abort and returns
\* correctCount / totalRows with 0 <= correctCount <= totalRows.
C5_AccuracyRuns ==
    (/\ result.op = "accuracy"
     /\ result.dataRows = result.classesRows
     /\ result.dataCols = result.outputSize) =>
        /\ result.status = "ok"
        /\ 0 <= result.numCorrect
        /\ result.numCorrect <= result.total

Holders(id) == {i \in 0..(network.numLayers - 1) : network.layers[i].input = id}

\* C8: when a forward pass returns, every matrix the network held or
\* allocated is held by exactly one layer or was destroyed exactly once,
\* nothing was used after its destruction, and the caller's input matrix was
\* neither destroyed nor stored; also when the input is a matrix that a layer
\* of the network holds.
C8_ForwardOwnership ==
    (result.op = "forwardPass" /\ result.status # "abort") =>
        /\ ~ghost.uaf
        /\ ~ghost.doubleFree
        /\ ~ghost.callerFreed
        /\ result.input \in DOMAIN heap
        /\ Holders(result.input) = {}
        /\ \A id \in (PoolSize + 1)..(nextId - 1) :
              IF id \in DOMAIN heap
              THEN Cardinality(Holders(id)) = 1
              ELSE Holders(id) = {}

---------------------------------------------------------------------------
(* Properties of teardown *)

Positions(obj) == {n \in 1..Len(ghost.destroyed) : ghost.destroyed[n] = obj}

\* C9: destroyNetwork destroys each of the numLayers layers and of the
\* numConnections connections exactly once, every layer before every
\* connection, and touches nothing it has already destroyed.
C9_DestroyOnce ==
    pc = "destroyed" =>
        /\ \A i \in 0..(network.numLayers - 1) :
              /\ Cardinality(Positions(<<"layer", i>>)) = 1
              /\ network.layers[i].input \notin DOMAIN heap
        /\ \A k \in 0..(network.numConnections - 1) :
              /\ Cardinality(Positions(<<"connection", k>>)) = 1
              /\ \A n \in Positions(<<"connection", k>>) :
                    /\ \A m \in Positions(<<"layer", network.connections[k].from>>) : m < n
                    /\ \A m \in Positions(<<"layer", network.connections[k].to>>) : m < n
        /\ Len(ghost.destroyed) = network.numLayers + network.numConnections
        /\ ~ghost.uaf
        /\ ~ghost.doubleFree

C9_Witness ==
    /\ pc = "destroyed"
    /\ network.numLayers = 3
    /\ result.passes = 2
    /\ result.after = "accuracy"
    /\ file # <<>>

---------------------------------------------------------------------------
(* Properties of the loss *)

Cells(M) == {<<i, j>> : i \in 0..(M.rows - 1), j \in 0..(M.cols - 1)}

RECURSIVE SumOver(_, _)
SumOver(S, f) ==
    IF S = {} THEN 0
    ELSE LET x == CHOOSE x \in S : TRUE IN f[x] + SumOver(S \ {x}, f)

\* the sum of the squares of every weight of every connection
WeightSquares(net) ==
    LET ofConnection(k) ==
            LET w == net.connections[k].weights
            IN  SumOver(Cells(w), [c \in Cells(w) |-> w.data[c[1]][c[2]] * w.data[c[1]][c[2]]])
    IN  SumOver(0..(net.numConnections - 1),
                [k \in 0..(net.numConnections - 1) |-> ofConnection(k)])

BiasSquares(net) ==
    LET ofConnection(k) ==
            LET b == net.connections[k].bias
            IN  SumOver(Cells(b), [c \in Cells(b) |-> b.data[c[1]][c[2]] * b.data[c[1]][c[2]]])
    IN  SumOver(0..(net.numConnections - 1),
                [k \in 0..(net.numConnections - 1) |-> ofConnection(k)])

\* C7: crossEntropyLoss changes nothing (network, matrices); without a
\* network its value is the same for every regularizationStrength; with a
\* network the value exceeds that one by strength * 0.5 * (sum of the squares
\* of all connection weights), bias entries not counted.  Values are the
\* fractions num / den with den = 2 * rows, in hundredths.
C7_LossPure ==
    [][(result'.op = "crossEntropyLoss" /\ result'.status = "ok") =>
          LET P == heap[result'.prediction]
              A == heap[result'.actual]
              plain == crossEntropyLoss(NULL, P, A, 0)
          IN  /\ UNCHANGED <<network, heap, nextId, randState, file, loaded, readLog, ghost>>
              /\ result'.den = 2 * A.rows
              /\ plain.den = result'.den
              /\ ~result'.withNetwork =>
                    \A strength \in 0..MaxStrength :
                        crossEntropyLoss(NULL, P, A, strength).num = result'.num
              /\ result'.withNetwork =>
                    result'.num - plain.num =
                        A.rows * result'.regularizationStrength * 100 * WeightSquares(network)
      ]_vars

C7_Witness ==
    /\ result.op = "crossEntropyLoss"
    /\ result.status = "ok"
    /\ result.withNetwork
    /\ result.regularizationStrength = 2
    /\ network.numLayers = 3
    /\ WeightSquares(network) > 1
    /\ BiasSquares(network) > 0
    /\ result.num # crossEntropyLoss(NULL, heap[result.prediction], heap[result.actual], 0).num

---------------------------------------------------------------------------
(* Properties of the serialization *)

SameNetwork(a, b) ==
    /\ a.numLayers = b.numLayers
    /\ a.numConnections = b.numConnections
    /\ \A i \in 0..(a.numLayers - 1) :
          /\ a.layers[i].size = b.layers[i].size
          /\ a.layers[i].activation = b.layers[i].activation
    /\ \A k \in 0..(a.numConnections - 1) :
          /\ a.connections[k].weights = b.connections[k].weights
          /\ a.connections[k].bias = b.connections[k].bias

\* C1: readNetwork of the file saveNetwork wrote returns a Network with the
\* same numLayers, sizes, hidden and output activations, weights and biases,
\* whatever the activations.
C1_RoundTrip ==
    (result.op = "readNetwork" /\ result.status = "ok") => SameNetwork(network, loaded)

Repeat(n, x) == [k \in 1..n |-> x]

\* the roles of the lines of the documented layout, in order
LayoutRoles(net) ==
    <<"numLayers">>
    \o Repeat(net.numLayers, "size")
    \o Repeat(net.numLayers - 2, "activation")
    \o (IF net.layers[net.numLayers - 1].activation = "softmax"
        THEN <<"activation">> ELSE <<>>)
    \o Repeat(CellsBefore(net, net.numConnections, FALSE), "weight")
    \o Repeat(CellsBefore(net, net.numConnections, TRUE), "bias")

\* C10: the file has the documented layout, and readNetwork consumes every
\* line of it exactly once, in order, in the role it was written for.
C10_LayoutAgreement ==
    /\ file # <<>> => [n \in 1..Len(file) |-> file[n].role] = LayoutRoles(network)
    /\ result.op = "readNetwork" =>
          readLog = [n \in 1..Len(file) |-> <<n, file[n].role>>]

=============================================================================
